---- MODULE Spec2Model ----
(***************************************************************************)
(* Deployment webhook server (server.js): the request handler of           *)
(* POST /deploy/:projectName, the in-memory deployment lock, the           *)
(* signature verifier and the deployment pipeline with its recovery        *)
(* restart.  Each request is a process whose position is the await it is   *)
(* suspended at; the code between two awaits runs as one step, as it does  *)
(* on the event loop.                                                      *)
(***************************************************************************)
EXTENDS Integers, Sequences, FiniteSets, TLC

(***************************************************************************)
(* Bounds of the model.                                                    *)
(***************************************************************************)
\* number of request slots, i.e. of requests that can be in flight together
NumReqs == 2
\* number of hex digits of the modelled HMAC digest (64 in the program)
DigestLen == 2

\* number of data chunks a child writes to one of its streams
MaxChunks == 2

\* number of arrivals followed within one window of the rate limiter
MaxArrivals == 11

Reqs == 1..NumReqs

(***************************************************************************)
(* Configuration: the PROJECTS mapping loaded at startup.                  *)
(***************************************************************************)
ProjectNames == {"demo", "api"}

UnknownProject == "ghost"

PathNames == ProjectNames \cup {UnknownProject}

DefaultBranch == <<"main">>

\* branch strings are sequences of path segments: "a/b" is <<"a", "b">>
PROJECTS ==
  [p \in ProjectNames |->
     IF p = "demo"
       THEN [dir |-> "/srv/demo", pm2Name |-> "demo-staging", secret |-> 3,
             branch |-> DefaultBranch]
       ELSE [dir |-> "/srv/api", pm2Name |-> "api-staging", secret |-> 5,
             branch |-> <<"feature-x">>]]

(***************************************************************************)
(* JSON bodies.  A raw body is the sequence of lexemes received on the     *)
(* wire; express.json parses it into req.body and the handler serializes   *)
(* req.body again with JSON.stringify.                                     *)
(***************************************************************************)
Undefined == [type |-> "undefined", segs |-> <<>>]

Str(segs) == [type |-> "string", segs |-> segs]

Num(n) == [type |-> "number", segs |-> <<n>>]

\* the value lexemes a raw body may carry for the ref field
ValueLexemes ==
  {"\"refs/heads/main\"", "\"refs/heads/feature-x\"", "\"main\"", "7", "\"\""}

ValueOf(lex) ==
  CASE lex = "\"refs/heads/main\"" -> Str(<<"refs", "heads", "main">>)
    [] lex = "\"refs/heads/feature-x\"" -> Str(<<"refs", "heads", "feature-x">>)
    [] lex = "\"main\"" -> Str(<<"main">>)
    [] lex = "7" -> Num(7)
    [] lex = "\"\"" -> Str(<<>>)

LexemeOf(v) == CHOOSE lex \in ValueLexemes : ValueOf(lex) = v

Whitespace == " "

RawBodies ==
  {<<"{", "}">>}
    \cup {<<"{", "\"ref\"", ":", lex, "}">> : lex \in ValueLexemes}
    \cup {<<"{", "\"ref\"", ":", Whitespace, "\"refs/heads/main\"", "}">>,
          <<"{", Whitespace, "}">>}

RECURSIVE StripWhitespace(_)
StripWhitespace(raw) ==
  IF raw = <<>> THEN <<>>
  ELSE IF Head(raw) = Whitespace THEN StripWhitespace(Tail(raw))
  ELSE <<Head(raw)>> \o StripWhitespace(Tail(raw))

\* express.json(): req.body, the object the raw text denotes
JsonParse(raw) ==
  LET lx == StripWhitespace(raw)
  IN  IF Len(lx) = 5 THEN [ref |-> ValueOf(lx[4])] ELSE [ref |-> Undefined]

\* JSON.stringify(req.body): the compact serialization of the object
JsonStringify(body) ==
  IF body.ref = Undefined THEN <<"{", "}">>
  ELSE <<"{", "\"ref\"", ":", LexemeOf(body.ref), "}">>

(***************************************************************************)
(* Signature verification.                                                 *)
(***************************************************************************)
\* a code for each lexeme, standing for its bytes
LexCode(lex) ==
  CASE lex = "{" -> 1
    [] lex = "}" -> 2
    [] lex = "\"ref\"" -> 3
    [] lex = ":" -> 4
    [] lex = Whitespace -> 5
    [] lex = "\"refs/heads/main\"" -> 6
    [] lex = "\"refs/heads/feature-x\"" -> 7
    [] lex = "\"main\"" -> 8
    [] lex = "7" -> 9
    [] lex = "\"\"" -> 10

RECURSIVE Mix(_, _, _)
\* keyed digest state after absorbing the payload, one lexeme at a time
Mix(payload, key, acc) ==
  IF payload = <<>> THEN acc
  ELSE Mix(Tail(payload), key, (acc * 11 + LexCode(Head(payload)) + key) % 251)

\* hex digit d as a character code ('0'..'9', 'a'..'f')
HexChar(d) == IF d < 10 THEN 48 + d ELSE 87 + d

RECURSIVE Pow16(_)
Pow16(n) == IF n = 0 THEN 1 ELSE 16 * Pow16(n - 1)

\* crypto.createHmac('sha256', secret).update(payload).digest('hex')
HmacHex(payload, secret) ==
  LET h == Mix(payload, secret, secret)
  IN  [i \in 1..DigestLen |-> HexChar((h \div Pow16(DigestLen - i)) % 16)]

\* the characters of 'sha256='
Sha256Prefix == <<115, 104, 97, 50, 53, 54, 61>>

ExpectedSignature(payload, secret) == Sha256Prefix \o HmacHex(payload, secret)

RECURSIVE BufferFrom(_)
\* Buffer.from(string): UTF-8, two bytes for a character above 127
BufferFrom(str) ==
  IF str = <<>> THEN <<>>
  ELSE IF Head(str) < 128 THEN <<Head(str)>> \o BufferFrom(Tail(str))
  ELSE <<192 + (Head(str) \div 64), 128 + (Head(str) % 64)>> \o BufferFrom(Tail(str))

\* the header is absent
NoSignature == <<>>

\* a header value that is not a string
NotAString == <<-1>>

\* typeof signature === 'string'
IsString(signature) == \A i \in 1..Len(signature) : signature[i] >= 0

\* a comparison that stops one byte short
timingSafeEqual_shortByOne(a, b) == \A i \in 1..(Len(a) - 1) : a[i] = b[i]

\* crypto.timingSafeEqual on two buffers of equal length
timingSafeEqual(a, b) == \A i \in 1..Len(a) : a[i] = b[i]

\* a verifier that checks the length of the token and nothing else
verifySignature_lengthOnly(payload, signature, secret) ==
  /\ signature # NoSignature
  /\ Len(BufferFrom(signature)) = Len(BufferFrom(ExpectedSignature(payload, secret)))

verifySignature(payload, signature, secret) ==
  LET expectedSignature == ExpectedSignature(payload, secret)
      sigBuf == BufferFrom(signature)
      expBuf == BufferFrom(expectedSignature)
  IN  IF signature = NoSignature \/ ~IsString(signature) THEN FALSE
      ELSE IF Len(sigBuf) # Len(expBuf) THEN FALSE
      ELSE timingSafeEqual(sigBuf, expBuf)

\* Buffer.from throws a TypeError for a value that is no string, buffer or array
BufferFromThrows(signature) == ~IsString(signature)

\* crypto.timingSafeEqual throws a RangeError for buffers of different lengths
timingSafeEqualThrows(a, b) == Len(a) # Len(b)

\* a verifier without the guards and without the try/catch: Buffer.from and
\* timingSafeEqual are called on whatever is presented
verifySignatureRaises_unguarded(payload, signature, secret) ==
  \/ BufferFromThrows(signature)
  \/ timingSafeEqualThrows(BufferFrom(signature),
                           BufferFrom(ExpectedSignature(payload, secret)))

\* whether verifySignature raises to its caller: an exception thrown inside
\* the try block is caught and turned into false
verifySignatureRaises(payload, signature, secret) ==
  LET sigBuf == BufferFrom(signature)
      expBuf == BufferFrom(ExpectedSignature(payload, secret))
      thrownInTry ==
        IF signature = NoSignature \/ ~IsString(signature) THEN FALSE
        ELSE IF BufferFromThrows(signature) THEN TRUE
        ELSE IF Len(sigBuf) # Len(expBuf) THEN FALSE
        ELSE timingSafeEqualThrows(sigBuf, expBuf)
      caught == TRUE
  IN  thrownInTry /\ ~caught

(***************************************************************************)
(* What a sender may put in the X-Hub-Signature-256 header.                *)
(***************************************************************************)
\* one character of the token replaced by another hex digit
Tamper(sig) == [sig EXCEPT ![Len(sig)] = IF @ = 48 THEN 49 ELSE 48]

\* the secret a sender signs with (a sender of an unknown project has none of ours)
SenderSecret(name) == IF name \in ProjectNames THEN PROJECTS[name].secret ELSE 3

Signatures(name, raw) ==
  {NoSignature,
   ExpectedSignature(raw, SenderSecret(name)),
   ExpectedSignature(JsonStringify(JsonParse(raw)), SenderSecret(name)),
   Tamper(ExpectedSignature(raw, SenderSecret(name)))}

(***************************************************************************)
(* Commands, errors and responses.                                         *)
(***************************************************************************)
Invocation(command, arg, cwd) == [command |-> command, arg |-> arg, cwd |-> cwd]

GitFetch(project) == Invocation("git fetch --all", <<>>, project.dir)

\* a reset that ignores the branch it is given
GitReset_defaultBranch(project, branch) ==
  Invocation("git reset --hard origin/", DefaultBranch, project.dir)

GitReset(project, branch) == Invocation("git reset --hard origin/", branch, project.dir)

NpmInstall(project) == Invocation("npm i", <<>>, project.dir)

NpmBuild(project) == Invocation("npm run build", <<>>, project.dir)

Pm2Restart(project) == Invocation("pm2 restart", <<project.pm2Name>>, project.dir)

\* exit statuses a child may close with
ExitCodes == {0, 1}

NoError == [message |-> "", command |-> "", code |-> 0]

Error(message) == [message |-> message, command |-> "", code |-> 0]

\* new Error(`Command failed with code ${code}: ${stderr}`)
CommandFailed(inv, code) ==
  [message |-> "Command failed with code", command |-> inv.command, code |-> code]

NoExecError == [message |-> "", code |-> 0, stderr |-> <<>>]

\* new Error(`Command failed with code ${code}: ${stderr}`), with its parts
ExecError(code, stderr) ==
  [message |-> "Command failed with code", code |-> code, stderr |-> stderr]

\* the code argument of 'close' when the child was ended by a signal: null
NullCode == -1

\* the code argument of 'close' when the child could not be spawned
SpawnErrno == -2

\* the error object of the child's 'error' event
SpawnError == [message |-> "spawn ENOENT", code |-> SpawnErrno, stderr |-> <<>>]

LockBusy == Error("Another deployment is in progress")

DirectoryMissing == Error("Project directory does not exist")

ManifestUnreadable == Error("package.json could not be read or parsed")

NoResponse == [status |-> 0, success |-> "none", key |-> "", text |-> "", detail |-> <<>>]

Json(status, success, key, text, detail) ==
  [status |-> status, success |-> success, key |-> key, text |-> text, detail |-> detail]

NotFound == Json(404, "none", "error", "Project not found", <<>>)

InvalidSignature == Json(401, "none", "error", "Invalid signature", <<>>)

Ignoring(branch, project) ==
  Json(200, "none", "message", "Ignoring deployment: branch", <<branch, project.branch>>)

Deployed(projectName) ==
  Json(200, "true", "message", "Successfully deployed", <<<<projectName>>>>)

\* error.message || 'Deployment failed'
Failed(error) ==
  Json(500, "false", "error",
       IF error.message = "" THEN "Deployment failed" ELSE error.message,
       <<<<error.command>>>>)

(***************************************************************************)
(* The effective branch.                                                   *)
(***************************************************************************)
\* ref.replace('refs/heads/', ''): the first occurrence is removed
StripRefsHeads(segs) ==
  LET hits == {i \in 1..(Len(segs) - 2) : segs[i] = "refs" /\ segs[i + 1] = "heads"}
  IN  IF hits = {} THEN segs
      ELSE LET i == CHOOSE j \in hits : \A k \in hits : j <= k
           IN  SubSeq(segs, 1, i - 1) \o SubSeq(segs, i + 2, Len(segs))

\* the truthiness of a value: undefined, the empty string and 0 are falsy
Truthy(v) ==
  CASE v.type = "undefined" -> FALSE
    [] v.type = "string" -> v.segs # <<>>
    [] v.type = "number" -> v.segs # <<0>>

\* req.body.ref ? req.body.ref.replace(...) : project.branch; a ref that is
\* not a string has no replace method
BranchThrows(body) == Truthy(body.ref) /\ body.ref.type = "number"

EffectiveBranch(body, project) ==
  IF Truthy(body.ref) THEN StripRefsHeads(body.ref.segs) ELSE project.branch

(***************************************************************************)
(* State.                                                                  *)
(***************************************************************************)
VARIABLES
  isDeploying,   \* the deployment lock
  pc,            \* where each request's handler is suspended
  request,       \* what each request carries: path name, header, raw body
  verified,      \* the verdict of verifySignature for the request, if called
  lockAcquired,  \* whether the request's acquireLock() resolved
  invoked,       \* the commands started on behalf of the request, in order
  manifest,      \* what the run found of package.json
  error,         \* the error caught by deployProject's catch block
  failures,      \* every failure that happened during the run, in order
  response,      \* the response sent to the request
  exits,         \* the exit codes of the run's children that closed, in order
  probe,         \* a call of verifySignature on its own: arguments and result
  child,         \* a call of execPromise on its own: the child and the promise
  reached,       \* requests that entered the deploy handler in this window
  health         \* the last answer to GET /health, and what went on at the time

vars == <<isDeploying, pc, request, verified, lockAcquired, invoked, manifest,
          error, failures, response, exits, probe, child, reached,
          health>>

server == <<isDeploying, pc, request, verified, lockAcquired, invoked, manifest,
            error, failures, response, exits>>

NoProbe == [payload |-> <<>>, secret |-> 0, signature |-> NoSignature,
            kind |-> "none", result |-> FALSE, raised |-> FALSE, stop |-> "none"]

\* the promise returned by execPromise, before resolve or reject is called
Pending == [state |-> "pending", value |-> <<>>, error |-> NoExecError]

NoChild == [phase |-> "none", command |-> "", stdout |-> <<>>, stderr |-> <<>>,
            cause |-> "none", code |-> 0, calls |-> 0, settlements |-> 0,
            outcome |-> Pending]

\* no GET /health has been answered
NoHealth == [status |-> 0, text |-> "", projects |-> {}, during |-> FALSE]

NoRequest == [projectName |-> "", signature |-> NoSignature, rawBody |-> <<>>]

Running == {"fetch", "reset", "install", "readManifest", "build", "restart", "recovery"}

\* a deployProject execution is between its start and its return or throw
Active(r) == pc[r] \in Running

InFlight(r) == pc[r] \in Running \cup {"awaitLock"}

InitServer ==
  /\ isDeploying = FALSE
  /\ pc = [r \in Reqs |-> "idle"]
  /\ request = [r \in Reqs |-> NoRequest]
  /\ verified = [r \in Reqs |-> "notCalled"]
  /\ lockAcquired = [r \in Reqs |-> FALSE]
  /\ invoked = [r \in Reqs |-> <<>>]
  /\ manifest = [r \in Reqs |-> "unchecked"]
  /\ error = [r \in Reqs |-> NoError]
  /\ failures = [r \in Reqs |-> <<>>]
  /\ response = [r \in Reqs |-> NoResponse]
  /\ exits = [r \in Reqs |-> <<>>]

Init ==
  /\ InitServer
  /\ probe = NoProbe
  /\ child = NoChild
  /\ reached = 0
  /\ health = NoHealth

(***************************************************************************)
(* The deployment lock.                                                    *)
(***************************************************************************)
\* a lock that lets every caller in
acquireLock_neverRejects(held) == [resolved |-> TRUE, isDeploying |-> TRUE]

\* acquireLock(): rejects when the flag is set, sets it and resolves otherwise
acquireLock(held) ==
  IF held THEN [resolved |-> FALSE, isDeploying |-> held]
  ELSE [resolved |-> TRUE, isDeploying |-> TRUE]

\* releaseLock(): the value isDeploying has afterwards
releaseLock == FALSE

(***************************************************************************)
(* The request handler up to its first await.                              *)
(***************************************************************************)
\* a handler without the branch filter
Gate_noBranchFilter(name, signature, raw) ==
  LET body == JsonParse(raw)
      payload == JsonStringify(body)
  IN  IF name \notin ProjectNames
        THEN [stop |-> "notFound", verified |-> "notCalled"]
      ELSE IF signature = NoSignature
        THEN [stop |-> "unauthorized", verified |-> "notCalled"]
      ELSE IF ~verifySignature(payload, signature, PROJECTS[name].secret)
        THEN [stop |-> "unauthorized", verified |-> "rejected"]
      ELSE IF BranchThrows(body)
        THEN [stop |-> "throws", verified |-> "accepted"]
      ELSE [stop |-> "deploy", verified |-> "accepted"]

\* a handler that checks the signature before it looks the project up
Gate_signatureFirst(name, signature, raw) ==
  LET body == JsonParse(raw)
      payload == JsonStringify(body)
      secret == IF name \in ProjectNames THEN PROJECTS[name].secret ELSE 0
  IN  IF signature = NoSignature
        THEN [stop |-> "unauthorized", verified |-> "notCalled"]
      ELSE IF ~verifySignature(payload, signature, secret)
        THEN [stop |-> "unauthorized", verified |-> "rejected"]
      ELSE IF name \notin ProjectNames
        THEN [stop |-> "notFound", verified |-> "accepted"]
      ELSE IF BranchThrows(body)
        THEN [stop |-> "throws", verified |-> "accepted"]
      ELSE IF EffectiveBranch(body, PROJECTS[name]) # PROJECTS[name].branch
        THEN [stop |-> "ignored", verified |-> "accepted"]
      ELSE [stop |-> "deploy", verified |-> "accepted"]

\* where the synchronous part of the handler stops, and the verifier's verdict
Gate(name, signature, raw) ==
  LET body == JsonParse(raw)
      payload == JsonStringify(body)
  IN  IF name \notin ProjectNames
        THEN [stop |-> "notFound", verified |-> "notCalled"]
      ELSE IF signature = NoSignature
        THEN [stop |-> "unauthorized", verified |-> "notCalled"]
      ELSE IF verifySignatureRaises(payload, signature, PROJECTS[name].secret)
        THEN [stop |-> "throws", verified |-> "raised"]
      ELSE IF ~verifySignature(payload, signature, PROJECTS[name].secret)
        THEN [stop |-> "unauthorized", verified |-> "rejected"]
      ELSE IF BranchThrows(body)
        THEN [stop |-> "throws", verified |-> "accepted"]
      ELSE IF EffectiveBranch(body, PROJECTS[name]) # PROJECTS[name].branch
        THEN [stop |-> "ignored", verified |-> "accepted"]
      ELSE [stop |-> "deploy", verified |-> "accepted"]

\* a POST /deploy/:projectName arrives and its handler runs to its first
\* await, or to its response
Handle(r, names, bodies) ==
  /\ pc[r] = "idle"
  /\ \E name \in names, raw \in bodies :
       \E signature \in Signatures(name, raw) :
         LET gate == Gate(name, signature, raw)
             lock == acquireLock(isDeploying)
         IN  /\ request' = [request EXCEPT ![r] =
                   [projectName |-> name, signature |-> signature, rawBody |-> raw]]
             /\ verified' = [verified EXCEPT ![r] = gate.verified]
             /\ CASE gate.stop = "notFound" ->
                       /\ response' = [response EXCEPT ![r] = NotFound]
                       /\ pc' = [pc EXCEPT ![r] = "responded"]
                       /\ UNCHANGED <<isDeploying, lockAcquired>>
                  [] gate.stop = "unauthorized" ->
                       /\ response' = [response EXCEPT ![r] = InvalidSignature]
                       /\ pc' = [pc EXCEPT ![r] = "responded"]
                       /\ UNCHANGED <<isDeploying, lockAcquired>>
                  [] gate.stop = "throws" ->
                       /\ pc' = [pc EXCEPT ![r] = "crashed"]
                       /\ UNCHANGED <<isDeploying, lockAcquired, response>>
                  [] gate.stop = "ignored" ->
                       /\ response' = [response EXCEPT ![r] =
                            Ignoring(EffectiveBranch(JsonParse(raw), PROJECTS[name]),
                                     PROJECTS[name])]
                       /\ pc' = [pc EXCEPT ![r] = "responded"]
                       /\ UNCHANGED <<isDeploying, lockAcquired>>
                  [] gate.stop = "deploy" ->
                       /\ isDeploying' = lock.isDeploying
                       /\ lockAcquired' = [lockAcquired EXCEPT ![r] = lock.resolved]
                       /\ pc' = [pc EXCEPT ![r] = "awaitLock"]
                       /\ UNCHANGED response
  /\ UNCHANGED <<invoked, manifest, error, failures, exits, probe, child, health>>

\* a POST /deploy/:projectName arrives; no middleware is mounted before the
\* route, so the handler runs for it
Receive(r) ==
  /\ Handle(r, PathNames, RawBodies)
  /\ UNCHANGED reached

\* a catch block that answers without releasing the lock
HandlerCatch_keepsLock(r, err) ==
  /\ isDeploying' = isDeploying
  /\ response' = [response EXCEPT ![r] = Failed(err)]
  /\ pc' = [pc EXCEPT ![r] = "responded"]

(***************************************************************************)
(* The handler's try/catch around the pipeline.                            *)
(***************************************************************************)
\* the catch block of the handler: release, respond 500 with the message
HandlerCatch(r, err) ==
  /\ isDeploying' = releaseLock
  /\ response' = [response EXCEPT ![r] = Failed(err)]
  /\ pc' = [pc EXCEPT ![r] = "responded"]

\* a try block that responds without releasing the lock
HandlerSuccess_keepsLock(r) ==
  /\ UNCHANGED isDeploying
  /\ response' = [response EXCEPT ![r] = Deployed(request[r].projectName)]
  /\ pc' = [pc EXCEPT ![r] = "responded"]

\* the end of the try block: release, respond 200 with the result
HandlerSuccess(r) ==
  /\ isDeploying' = releaseLock
  /\ response' = [response EXCEPT ![r] = Deployed(request[r].projectName)]
  /\ pc' = [pc EXCEPT ![r] = "responded"]

\* await acquireLock() rejected: the catch block runs
LockRejected(r) ==
  /\ pc[r] = "awaitLock"
  /\ ~lockAcquired[r]
  /\ HandlerCatch(r, LockBusy)
  /\ UNCHANGED <<request, verified, lockAcquired, invoked, manifest, error, failures, exits, probe, child, reached, health>>

(***************************************************************************)
(* The pipeline.                                                           *)
(***************************************************************************)
Project(r) == PROJECTS[request[r].projectName]

\* the branch the handler passes to deployProject
Branch(r) == EffectiveBranch(JsonParse(request[r].rawBody), Project(r))

\* a close handler that resolves whatever the exit code
Resolves_always(code) == TRUE

\* execPromise resolves exactly when the child closes with code 0
Resolves(code) == code = 0

\* execPromise(command, cwd): the child is started
Exec(r, inv, step) ==
  /\ invoked' = [invoked EXCEPT ![r] = Append(@, inv)]
  /\ pc' = [pc EXCEPT ![r] = step]

\* the catch block of deployProject: keep the error, try the restart anyway
PipelineCatch(r, err) ==
  /\ error' = [error EXCEPT ![r] = err]
  /\ Exec(r, Pm2Restart(Project(r)), "recovery")

\* the child of invocation inv closed with this code
Closed(r, inv, code) ==
  /\ exits' = [exits EXCEPT ![r] = Append(@, code)]
  /\ failures' = [failures EXCEPT ![r] =
                   IF code = 0 THEN @ ELSE Append(@, CommandFailed(inv, code))]

\* a deployProject that does not await the fetch before the reset
StartDeploy_noAwait(r) ==
  /\ pc[r] = "awaitLock"
  /\ lockAcquired[r]
  /\ \E dirExists \in BOOLEAN :
       IF dirExists
         THEN /\ invoked' = [invoked EXCEPT ![r] =
                   @ \o <<GitFetch(Project(r)), GitReset(Project(r), Branch(r))>>]
              /\ pc' = [pc EXCEPT ![r] = "reset"]
              /\ UNCHANGED <<isDeploying, response, failures>>
         ELSE /\ failures' = [failures EXCEPT ![r] = Append(@, DirectoryMissing)]
              /\ HandlerCatch(r, DirectoryMissing)
              /\ UNCHANGED invoked
  /\ UNCHANGED <<request, verified, lockAcquired, manifest, error, exits, probe, child, reached, health>>

\* a deployProject that checks the directory inside its try block
StartDeploy_checkInTry(r) ==
  /\ pc[r] = "awaitLock"
  /\ lockAcquired[r]
  /\ \E dirExists \in BOOLEAN :
       IF dirExists
         THEN /\ Exec(r, GitFetch(Project(r)), "fetch")
              /\ UNCHANGED <<isDeploying, response, failures, error>>
         ELSE /\ failures' = [failures EXCEPT ![r] = Append(@, DirectoryMissing)]
              /\ PipelineCatch(r, DirectoryMissing)
              /\ UNCHANGED <<isDeploying, response>>
  /\ UNCHANGED <<request, verified, lockAcquired, manifest, exits, probe, child, reached, health>>

\* await acquireLock() resolved: deployProject starts
StartDeploy(r) ==
  /\ pc[r] = "awaitLock"
  /\ lockAcquired[r]
  /\ \E dirExists \in BOOLEAN :
       IF dirExists
         THEN /\ Exec(r, GitFetch(Project(r)), "fetch")
              /\ UNCHANGED <<isDeploying, response, failures>>
         ELSE /\ failures' = [failures EXCEPT ![r] = Append(@, DirectoryMissing)]
              /\ HandlerCatch(r, DirectoryMissing)
              /\ UNCHANGED invoked
  /\ UNCHANGED <<request, verified, lockAcquired, manifest, error, exits, probe, child, reached, health>>

FetchClosed(r) ==
  /\ pc[r] = "fetch"
  /\ \E code \in ExitCodes :
       /\ Closed(r, GitFetch(Project(r)), code)
       /\ IF Resolves(code)
            THEN /\ Exec(r, GitReset(Project(r), Branch(r)), "reset")
                 /\ UNCHANGED error
            ELSE PipelineCatch(r, CommandFailed(GitFetch(Project(r)), code))
  /\ UNCHANGED <<isDeploying, request, verified, lockAcquired, manifest, response, probe, child, reached, health>>

ResetClosed(r) ==
  /\ pc[r] = "reset"
  /\ \E code \in ExitCodes :
       /\ Closed(r, GitReset(Project(r), Branch(r)), code)
       /\ IF Resolves(code)
            THEN /\ Exec(r, NpmInstall(Project(r)), "install")
                 /\ UNCHANGED error
            ELSE PipelineCatch(r, CommandFailed(GitReset(Project(r), Branch(r)), code))
  /\ UNCHANGED <<isDeploying, request, verified, lockAcquired, manifest, response, probe, child, reached, health>>

\* npm i closed; on success fs.existsSync(package.json) decides what follows
InstallClosed(r) ==
  /\ pc[r] = "install"
  /\ \E code \in ExitCodes :
       /\ Closed(r, NpmInstall(Project(r)), code)
       /\ IF Resolves(code)
            THEN \E exists \in BOOLEAN :
                   IF exists
                     THEN /\ manifest' = [manifest EXCEPT ![r] = "present"]
                          /\ pc' = [pc EXCEPT ![r] = "readManifest"]
                          /\ UNCHANGED <<invoked, error>>
                     ELSE /\ manifest' = [manifest EXCEPT ![r] = "missing"]
                          /\ Exec(r, Pm2Restart(Project(r)), "restart")
                          /\ UNCHANGED error
            ELSE /\ PipelineCatch(r, CommandFailed(NpmInstall(Project(r)), code))
                 /\ UNCHANGED manifest
  /\ UNCHANGED <<isDeploying, request, verified, lockAcquired, response, probe, child, reached, health>>

\* a deployProject that runs the build for every readable manifest
ManifestRead_buildAlways(r) ==
  /\ pc[r] = "readManifest"
  /\ \E content \in {"unreadable", "noBuild", "build"} :
       /\ manifest' = [manifest EXCEPT ![r] = content]
       /\ failures' = [failures EXCEPT ![r] =
             IF content = "unreadable" THEN Append(@, ManifestUnreadable) ELSE @]
       /\ CASE content = "unreadable" -> PipelineCatch(r, ManifestUnreadable)
            [] OTHER ->
                 /\ Exec(r, NpmBuild(Project(r)), "build")
                 /\ UNCHANGED error
  /\ UNCHANGED <<isDeploying, request, verified, lockAcquired, response, exits, probe, child, reached, health>>

\* await fsp.readFile(...) settled and JSON.parse ran
ManifestRead(r) ==
  /\ pc[r] = "readManifest"
  /\ \E content \in {"unreadable", "noBuild", "build"} :
       /\ manifest' = [manifest EXCEPT ![r] = content]
       /\ failures' = [failures EXCEPT ![r] =
             IF content = "unreadable" THEN Append(@, ManifestUnreadable) ELSE @]
       /\ CASE content = "unreadable" -> PipelineCatch(r, ManifestUnreadable)
            [] content = "noBuild" ->
                 /\ Exec(r, Pm2Restart(Project(r)), "restart")
                 /\ UNCHANGED error
            [] content = "build" ->
                 /\ Exec(r, NpmBuild(Project(r)), "build")
                 /\ UNCHANGED error
  /\ UNCHANGED <<isDeploying, request, verified, lockAcquired, response, exits, probe, child, reached, health>>

BuildClosed(r) ==
  /\ pc[r] = "build"
  /\ \E code \in ExitCodes :
       /\ Closed(r, NpmBuild(Project(r)), code)
       /\ IF Resolves(code)
            THEN /\ Exec(r, Pm2Restart(Project(r)), "restart")
                 /\ UNCHANGED error
            ELSE PipelineCatch(r, CommandFailed(NpmBuild(Project(r)), code))
  /\ UNCHANGED <<isDeploying, request, verified, lockAcquired, manifest, response, probe, child, reached, health>>

\* a deployProject whose restart step stands after the try block
RestartClosed_outsideTry(r) ==
  /\ pc[r] = "restart"
  /\ \E code \in ExitCodes :
       /\ Closed(r, Pm2Restart(Project(r)), code)
       /\ IF Resolves(code)
            THEN HandlerSuccess(r)
            ELSE HandlerCatch(r, CommandFailed(Pm2Restart(Project(r)), code))
       /\ UNCHANGED <<invoked, error>>
  /\ UNCHANGED <<request, verified, lockAcquired, manifest, probe, child, reached, health>>

\* the primary restart closed: deployProject returns, or enters its catch block
RestartClosed(r) ==
  /\ pc[r] = "restart"
  /\ \E code \in ExitCodes :
       /\ Closed(r, Pm2Restart(Project(r)), code)
       /\ IF Resolves(code)
            THEN /\ HandlerSuccess(r)
                 /\ UNCHANGED <<invoked, error>>
            ELSE /\ PipelineCatch(r, CommandFailed(Pm2Restart(Project(r)), code))
                 /\ UNCHANGED <<isDeploying, response>>
  /\ UNCHANGED <<request, verified, lockAcquired, manifest, probe, child, reached, health>>

\* a catch block that lets the recovery's failure replace the caught error
Rethrown_recovery(caught, restartError) ==
  IF restartError # NoError THEN restartError ELSE caught

\* what deployProject throws once the recovery restart has settled
Rethrown(caught, restartError) == caught

\* the recovery restart closed: its failure is logged, the caught error thrown
RecoveryClosed(r) ==
  /\ pc[r] = "recovery"
  /\ \E code \in ExitCodes :
       LET restartError == CommandFailed(Pm2Restart(Project(r)), code)
       IN  /\ Closed(r, Pm2Restart(Project(r)), code)
           /\ HandlerCatch(r, Rethrown(error[r],
                                       IF Resolves(code) THEN NoError ELSE restartError))
  /\ UNCHANGED <<request, verified, lockAcquired, invoked, manifest, error, probe, child, reached, health>>

\* the exchange is over; the slot serves a later request
Forget(r) ==
  /\ pc[r] \in {"responded", "crashed"}
  /\ pc' = [pc EXCEPT ![r] = "idle"]
  /\ request' = [request EXCEPT ![r] = NoRequest]
  /\ verified' = [verified EXCEPT ![r] = "notCalled"]
  /\ lockAcquired' = [lockAcquired EXCEPT ![r] = FALSE]
  /\ invoked' = [invoked EXCEPT ![r] = <<>>]
  /\ manifest' = [manifest EXCEPT ![r] = "unchecked"]
  /\ error' = [error EXCEPT ![r] = NoError]
  /\ failures' = [failures EXCEPT ![r] = <<>>]
  /\ response' = [response EXCEPT ![r] = NoResponse]
  /\ exits' = [exits EXCEPT ![r] = <<>>]
  /\ UNCHANGED <<isDeploying, probe, child, reached, health>>

Next ==
  \E r \in Reqs :
    \/ Receive(r)
    \/ LockRejected(r)
    \/ StartDeploy(r)
    \/ FetchClosed(r)
    \/ ResetClosed(r)
    \/ InstallClosed(r)
    \/ ManifestRead(r)
    \/ BuildClosed(r)
    \/ RestartClosed(r)
    \/ RecoveryClosed(r)
    \/ Forget(r)

Spec == Init /\ [][Next]_vars

\* every handler that can take a step eventually does: children close and
\* promises settle
FairSpec == Spec /\ \A r \in Reqs : WF_vars(
    LockRejected(r) \/ StartDeploy(r) \/ FetchClosed(r) \/ ResetClosed(r)
    \/ InstallClosed(r) \/ ManifestRead(r) \/ BuildClosed(r) \/ RestartClosed(r)
    \/ RecoveryClosed(r))

(***************************************************************************)
(* verifySignature on its own: a caller presents the expected token, or    *)
(* the expected token with one character replaced.                         *)
(***************************************************************************)
Secrets == {PROJECTS[p].secret : p \in ProjectNames}

\* characters a replaced position may hold: digits, letters, '=', and one
\* character outside ASCII
Characters == {48, 49, 97, 102, 61, 115, 233}

InitVerify ==
  /\ InitServer
  /\ probe \in {[NoProbe EXCEPT !.payload = payload, !.secret = secret] :
                  payload \in RawBodies, secret \in Secrets}
  /\ child = NoChild
  /\ reached = 0
  /\ health = NoHealth

\* the configured project that has this secret
ProjectOf(secret) == CHOOSE p \in ProjectNames : PROJECTS[p].secret = secret

\* verifySignature is called, and the handler is run on the same request
Probe(kind, signature) ==
  /\ probe.kind = "none"
  /\ probe' = [probe EXCEPT
       !.signature = signature,
       !.kind = kind,
       !.result = verifySignature(probe.payload, signature, probe.secret),
       !.raised = verifySignatureRaises(probe.payload, signature, probe.secret),
       !.stop = Gate(ProjectOf(probe.secret), signature, probe.payload).stop]
  /\ UNCHANGED <<server, child, reached, health>>

PresentExpected == Probe("expected", ExpectedSignature(probe.payload, probe.secret))

PresentMutated ==
  \E pos \in 1..(Len(Sha256Prefix) + DigestLen), c \in Characters :
    /\ ExpectedSignature(probe.payload, probe.secret)[pos] # c
    /\ Probe("mutated", [ExpectedSignature(probe.payload, probe.secret) EXCEPT ![pos] = c])

PresentAbsent == Probe("absent", NoSignature)

PresentNonString == Probe("nonString", NotAString)

\* a token shorter or longer than the expected one, in characters or in bytes
PresentWrongLength ==
  LET expected == ExpectedSignature(probe.payload, probe.secret)
  IN  \/ \E n \in 1..(Len(expected) - 1) : Probe("wrongLength", SubSeq(expected, 1, n))
      \/ \E c \in Characters : Probe("wrongLength", Append(expected, c))
      \/ \E pos \in 1..Len(expected) :
            Probe("wrongLength", [expected EXCEPT ![pos] = 233])

NextVerify ==
  \/ PresentExpected
  \/ PresentMutated
  \/ PresentAbsent
  \/ PresentNonString
  \/ PresentWrongLength

SpecVerify == InitVerify /\ [][NextVerify]_vars

TypeOK ==
  /\ isDeploying \in BOOLEAN
  /\ \A r \in Reqs :
       /\ pc[r] \in Running \cup {"idle", "awaitLock", "responded", "crashed"}
       /\ verified[r] \in {"notCalled", "accepted", "rejected", "raised"}
       /\ lockAcquired[r] \in BOOLEAN
       /\ manifest[r] \in {"unchecked", "present", "missing", "unreadable", "noBuild", "build"}


(***************************************************************************)
(* execPromise on its own: one child at a time is started, writes to its   *)
(* streams, and ends by exiting, by the kill of exec's timeout, or by not   *)
(* being spawned at all.                                                    *)
(***************************************************************************)
ExecCommands == {"git fetch --all", "npm i"}

StdoutChunks == {"out1", "out2"}

StderrChunks == {"err1", "err2"}

\* exit statuses of a child that ran and exited by itself
ChildExitCodes == {0, 1, 127}

\* a promise that takes the last call of resolve or reject
Settle_lastWins(promise, state, value, err) ==
  [state |-> state, value |-> value, error |-> err]

\* resolve(value) / reject(err): only the first call settles the promise
Settle(promise, state, value, err) ==
  IF promise.state = "pending"
    THEN [state |-> state, value |-> value, error |-> err]
    ELSE promise

\* the bookkeeping of one call of resolve or reject on the child's promise
Called(state, value, err) ==
  LET after == Settle(child.outcome, state, value, err)
  IN  [child EXCEPT !.calls = @ + 1,
                    !.settlements = IF after = child.outcome THEN @ ELSE @ + 1,
                    !.outcome = after]

\* exec(command, {cwd, timeout: 300000}) inside new Promise(...)
ExecStart ==
  /\ child.phase = "none"
  /\ \E command \in ExecCommands, spawned \in BOOLEAN :
       child' = [NoChild EXCEPT !.command = command,
                                !.phase = IF spawned THEN "running" ELSE "spawnFailed",
                                !.cause = IF spawned THEN "none" ELSE "spawn",
                                !.code = IF spawned THEN 0 ELSE SpawnErrno]
  /\ UNCHANGED <<server, probe, reached, health>>

\* child.stdout.on('data'): stdout += data
StdoutData ==
  /\ child.phase = "running"
  /\ Len(child.stdout) < MaxChunks
  /\ \E data \in StdoutChunks : child' = [child EXCEPT !.stdout = Append(@, data)]
  /\ UNCHANGED <<server, probe, reached, health>>

\* child.stderr.on('data'): stderr += data
StderrData ==
  /\ child.phase = "running"
  /\ Len(child.stderr) < MaxChunks
  /\ \E data \in StderrChunks : child' = [child EXCEPT !.stderr = Append(@, data)]
  /\ UNCHANGED <<server, probe, reached, health>>

\* the child exits by itself
ChildExits ==
  /\ child.phase = "running"
  /\ \E code \in ChildExitCodes :
       child' = [child EXCEPT !.phase = "exited", !.cause = "exit", !.code = code]
  /\ UNCHANGED <<server, probe, reached, health>>

\* the timer of exec's timeout option fires and kills the child: it ends by
\* the signal, so its exit code is null
TimeoutKill ==
  /\ child.phase = "running"
  /\ child' = [child EXCEPT !.phase = "exited", !.cause = "timeout", !.code = NullCode]
  /\ UNCHANGED <<server, probe, reached, health>>

\* child.on('error'): reject(error)
OnError ==
  /\ child.phase = "spawnFailed"
  /\ child' = [Called("rejected", <<>>, SpawnError) EXCEPT !.phase = "exited"]
  /\ UNCHANGED <<server, probe, reached, health>>

\* child.on('close'): resolve(stdout) if code === 0, else reject(err)
OnClose ==
  /\ child.phase = "exited"
  /\ child' = [(IF Resolves(child.code)
                  THEN Called("resolved", child.stdout, NoExecError)
                  ELSE Called("rejected", <<>>, ExecError(child.code, child.stderr)))
               EXCEPT !.phase = "closed"]
  /\ UNCHANGED <<server, probe, reached, health>>

\* the caller has taken the outcome; the next execPromise may start
ExecDone ==
  /\ child.phase = "closed"
  /\ child' = NoChild
  /\ UNCHANGED <<server, probe, reached, health>>

InitExec ==
  /\ InitServer
  /\ probe = NoProbe
  /\ child = NoChild
  /\ reached = 0
  /\ health = NoHealth

NextExec ==
  \/ ExecStart
  \/ StdoutData
  \/ StderrData
  \/ ChildExits
  \/ TimeoutKill
  \/ OnError
  \/ OnClose
  \/ ExecDone

SpecExec == InitExec /\ [][NextExec]_vars

(***************************************************************************)
(* The rate limiter: the requests of one client address to /deploy within   *)
(* one window, counted as they enter the deploy handler.                    *)
(***************************************************************************)
\* max: 10
RateLimitMax == 10

\* //app.use('/deploy', limiter): the limiter is constructed, never mounted
LimiterMounted == FALSE

TooManyRequests ==
  Json(429, "none", "message",
       "Too many deploy requests from this IP, please try again later.", <<>>)

\* what the client sends in this window: deploys of one project
RateNames == {"demo"}

RateBodies == {<<"{", "\"ref\"", ":", "\"refs/heads/main\"", "}">>}

\* a request of the client arrives at /deploy
Arrive(r) ==
  /\ reached < MaxArrivals
  /\ IF LimiterMounted /\ reached >= RateLimitMax
       THEN /\ pc[r] = "idle"
            /\ response' = [response EXCEPT ![r] = TooManyRequests]
            /\ pc' = [pc EXCEPT ![r] = "responded"]
            /\ UNCHANGED <<isDeploying, request, verified, lockAcquired, invoked,
                           manifest, error, failures, exits, probe, child, reached, health>>
       ELSE /\ Handle(r, RateNames, RateBodies)
            /\ reached' = reached + 1

\* windowMs has passed since the window began: the count starts again
WindowElapses ==
  /\ reached > 0
  /\ reached' = 0
  /\ UNCHANGED <<server, probe, child, health>>

NextRate ==
  \/ \E r \in Reqs :
       \/ Arrive(r)
       \/ LockRejected(r)
       \/ StartDeploy(r)
       \/ FetchClosed(r)
       \/ ResetClosed(r)
       \/ InstallClosed(r)
       \/ ManifestRead(r)
       \/ BuildClosed(r)
       \/ RestartClosed(r)
       \/ RecoveryClosed(r)
       \/ Forget(r)
  \/ WindowElapses

SpecRate == Init /\ [][NextRate]_vars

(***************************************************************************)
(* GET /health beside the deployments of one project.                      *)
(***************************************************************************)
\* a handler that takes the deployment lock's release on itself
HealthCheck_releasesLock ==
  /\ health' = [status |-> 200, text |-> "ok", projects |-> DOMAIN PROJECTS,
                during |-> isDeploying /\ \E r \in Reqs : Active(r)]
  /\ isDeploying' = releaseLock
  /\ UNCHANGED <<pc, request, verified, lockAcquired, invoked, manifest, error,
                 failures, response, exits, probe, child, reached>>

\* app.get('/health'): res.json({status: 'ok', projects: Object.keys(PROJECTS)})
HealthCheck ==
  /\ health' = [status |-> 200, text |-> "ok", projects |-> DOMAIN PROJECTS,
                during |-> isDeploying /\ \E r \in Reqs : Active(r)]
  /\ UNCHANGED <<server, probe, child, reached>>

\* a POST /deploy/:projectName of the sender arrives
ReceiveDeploy(r) ==
  /\ Handle(r, RateNames, RateBodies)
  /\ UNCHANGED reached

NextHealth ==
  \/ \E r \in Reqs :
       \/ ReceiveDeploy(r)
       \/ LockRejected(r)
       \/ StartDeploy(r)
       \/ FetchClosed(r)
       \/ ResetClosed(r)
       \/ InstallClosed(r)
       \/ ManifestRead(r)
       \/ BuildClosed(r)
       \/ RestartClosed(r)
       \/ RecoveryClosed(r)
       \/ Forget(r)
  \/ HealthCheck

SpecHealth == Init /\ [][NextHealth]_vars

(***************************************************************************)
(* Properties.                                                             *)
(***************************************************************************)
Configured(r) == request[r].projectName \in ProjectNames

Body(r) == JsonParse(request[r].rawBody)

\* the payload the handler hands to verifySignature
Payload(r) == JsonStringify(Body(r))

\* the invocations the specification names, written out
Expected(r, command, arg) ==
  [command |-> command, arg |-> arg, cwd |-> PROJECTS[request[r].projectName].dir]

ExpectedFetch(r) == Expected(r, "git fetch --all", <<>>)

ExpectedReset(r) ==
  Expected(r, "git reset --hard origin/", PROJECTS[request[r].projectName].branch)

ExpectedInstall(r) == Expected(r, "npm i", <<>>)

ExpectedBuild(r) == Expected(r, "npm run build", <<>>)

ExpectedRestart(r) ==
  Expected(r, "pm2 restart", <<PROJECTS[request[r].projectName].pm2Name>>)

Restarts(r) == {i \in 1..Len(invoked[r]) : invoked[r][i].command = "pm2 restart"}

\* C1: at most one deployProject execution is active at any instant, for any
\* number of requests in any interleaving.
C1_MutualExclusion == Cardinality({r \in Reqs : Active(r)}) <= 1

\* C2: a deploy request that passes the signature check and the branch filter
\* while another request's pipeline is in flight does not get the lock (it is
\* rejected with 'Another deployment is in progress').
C2_SecondRejected ==
  [][\A r \in Reqs :
       (/\ pc[r] = "idle"
        /\ pc'[r] = "awaitLock"
        /\ \E q \in Reqs \ {r} : Active(q))
       => ~lockAcquired'[r]]_vars

\* C3: when a request that acquired the lock sends its response (200 or 500,
\* the directory-missing failure included) isDeploying is false, and the lock
\* is not held once no request is in flight.
C3_LockFreeAfterOutcome ==
  /\ []((\A r \in Reqs : ~InFlight(r)) => ~isDeploying)
  /\ [][\A r \in Reqs :
          (lockAcquired[r] /\ response[r] = NoResponse /\ response'[r] # NoResponse)
          => (~isDeploying' /\ response'[r].status \in {200, 500})]_vars

C3_Witness ==
  \E r \in Reqs :
    /\ pc[r] = "responded"
    /\ lockAcquired[r]
    /\ response[r] = Failed(DirectoryMissing)
    /\ ~isDeploying

\* the normal sequence up to and including the command that failed
NormalPrefix(r, command) ==
  LET seq == <<ExpectedFetch(r), ExpectedReset(r), ExpectedInstall(r), ExpectedBuild(r)>>
      k == CHOOSE i \in 1..4 : seq[i].command = command
  IN  SubSeq(seq, 1, k)

StepCommands == {"git fetch --all", "git reset --hard origin/", "npm i", "npm run build"}

\* C4: once fetch, reset, install or build has failed in a run, the commands
\* invoked in that run are the normal sequence up to the failed command
\* followed by exactly one restart: no later step runs, one recovery restart.
C4_FailureSkipsToRecovery ==
  \A r \in Reqs :
    (failures[r] # <<>> /\ Head(failures[r]).command \in StepCommands)
    => /\ invoked[r] = NormalPrefix(r, Head(failures[r]).command)
                         \o <<ExpectedRestart(r)>>
       /\ Cardinality(Restarts(r)) = 1

C4_Witness ==
  \E r \in Reqs :
    /\ pc[r] = "responded"
    /\ failures[r] # <<>>
    /\ Head(failures[r]).command = "npm i"
    /\ Len(invoked[r]) = 4

\* C5: when a step of a run has failed, the error deployProject throws and the
\* handler's 500 response carry that first failure, whether the recovery
\* restart succeeded or failed; the outcome is never a success.
C5_OriginalErrorReported ==
  \A r \in Reqs :
    /\ (pc[r] = "recovery" /\ failures[r] # <<>>) => error[r] = Head(failures[r])
    /\ (pc[r] = "responded" /\ failures[r] # <<>>)
         => response[r] = Failed(Head(failures[r]))

C5_Witness ==
  \E r \in Reqs :
    /\ pc[r] = "responded"
    /\ Len(failures[r]) = 2
    /\ failures[r][1].command = "npm run build"
    /\ failures[r][2].command = "pm2 restart"
    /\ response[r].status = 500

\* the commands of a run in which nothing fails
SuccessSequence(r, withBuild) ==
  <<ExpectedFetch(r), ExpectedReset(r), ExpectedInstall(r)>>
    \o (IF withBuild THEN <<ExpectedBuild(r)>> ELSE <<>>)
    \o <<ExpectedRestart(r)>>

\* the request is for a configured project, carries the token the handler's
\* check expects and the ref of the configured branch, and got the lock
SuccessCase(r) ==
  /\ Configured(r)
  /\ request[r].signature = ExpectedSignature(Payload(r), Project(r).secret)
  /\ Body(r).ref = Str(<<"refs", "heads">> \o Project(r).branch)
  /\ lockAcquired[r]

MismatchOf(req) ==
  /\ req.projectName \in ProjectNames
  /\ verifySignature(JsonStringify(JsonParse(req.rawBody)), req.signature,
                     PROJECTS[req.projectName].secret)
  /\ ~BranchThrows(JsonParse(req.rawBody))
  /\ EffectiveBranch(JsonParse(req.rawBody), PROJECTS[req.projectName])
       # PROJECTS[req.projectName].branch

MismatchCase(r) == MismatchOf(request[r])

UnauthenticatedOf(req) ==
  /\ req.projectName \in ProjectNames
  /\ \/ req.signature = NoSignature
     \/ req.signature # ExpectedSignature(JsonStringify(JsonParse(req.rawBody)),
                                           PROJECTS[req.projectName].secret)

Unauthenticated(r) == UnauthenticatedOf(request[r])

\* C9: a request for a configured project whose token is absent or fails
\* verification gets 401 'Invalid signature', has no command invoked and
\* neither acquires nor changes the lock; every invoked command belongs to a
\* request whose token passed verification against the project's secret.
C9_NoUnauthenticatedDeployment ==
  /\ [](\A r \in Reqs :
          /\ (pc[r] # "idle" /\ Unauthenticated(r))
             => /\ pc[r] = "responded"
                /\ response[r] = InvalidSignature
                /\ response[r].status = 401
                /\ invoked[r] = <<>>
                /\ ~lockAcquired[r]
          /\ invoked[r] # <<>>
             => /\ Configured(r)
                /\ request[r].signature = ExpectedSignature(Payload(r), Project(r).secret))
  /\ [][\A r \in Reqs :
          (pc[r] = "idle" /\ pc'[r] # "idle" /\ UnauthenticatedOf(request'[r]))
          => isDeploying' = isDeploying]_vars

C9_Witness ==
  \E r \in Reqs :
    /\ pc[r] = "responded"
    /\ Configured(r)
    /\ request[r].signature = Tamper(ExpectedSignature(Payload(r), Project(r).secret))
    /\ response[r].status = 401
    /\ isDeploying

\* C10: verifySignature returns true for the token "sha256=" followed by the
\* hex HMAC of the body under the secret, and false for every token obtained
\* from it by changing a single character.
C10_AcceptsExpectedRejectsMutation ==
  /\ probe.kind = "expected" => probe.result = TRUE
  /\ probe.kind = "mutated" => probe.result = FALSE

C10_Witness ==
  /\ probe.kind = "mutated"
  /\ probe.signature[Len(probe.signature)] # 
       ExpectedSignature(probe.payload, probe.secret)[Len(probe.signature)]
  /\ probe.result = FALSE

\* C11: verifySignature never raises to its caller; for a token that is absent,
\* not a string, or of a length other than the expected token's it returns
\* false, and the handler answers such a request 401 instead of failing.
C11_NeverRaises ==
  /\ ~probe.raised
  /\ probe.kind \in {"absent", "nonString", "wrongLength"}
       => (probe.result = FALSE /\ probe.stop = "unauthorized")

C11_Witness ==
  /\ probe.kind = "wrongLength"
  /\ Len(probe.signature) < Len(ExpectedSignature(probe.payload, probe.secret))
  /\ probe.result = FALSE
  /\ probe.stop = "unauthorized"

\* C12: the handler verifies the token over the raw body as received: two
\* requests for one project presenting the same token cannot both pass if
\* their raw bodies differ, and a request whose token is the HMAC of its raw
\* bytes passes.
C12_RawBodyVerified ==
  /\ \A r \in Reqs :
       (/\ pc[r] # "idle"
        /\ Configured(r)
        /\ request[r].signature
             = ExpectedSignature(request[r].rawBody, Project(r).secret))
       => verified[r] = "accepted"
  /\ \A r, q \in Reqs :
       (/\ verified[r] = "accepted"
        /\ verified[q] = "accepted"
        /\ request[r].projectName = request[q].projectName
        /\ request[r].signature = request[q].signature)
       => request[r].rawBody = request[q].rawBody

\* the request passed the project lookup, the signature check and the branch
\* filter, so its handler called acquireLock()
ReachedLock(r) ==
  /\ Configured(r)
  /\ verified[r] = "accepted"
  /\ ~BranchThrows(Body(r))
  /\ EffectiveBranch(Body(r), Project(r)) = Project(r).branch

LockBusyResponse ==
  [status |-> 500, success |-> "false", key |-> "error",
   text |-> "Another deployment is in progress", detail |-> <<<<"">>>>]

\* C13: a deploy request that reaches lock acquisition while the lock is held
\* is rejected at once with 500 'Another deployment is in progress'; it is not
\* deferred or retried and no command is ever invoked on its behalf, also
\* after the running deployment has finished.
C13_RejectNotQueue ==
  /\ [](\A r \in Reqs :
          (ReachedLock(r) /\ ~lockAcquired[r])
          => /\ invoked[r] = <<>>
             /\ pc[r] \in {"awaitLock", "responded"}
             /\ pc[r] = "responded" => response[r] = LockBusyResponse)
  /\ [][\A r \in Reqs :
          /\ (pc[r] = "idle" /\ pc'[r] = "awaitLock" /\ isDeploying)
             => ~lockAcquired'[r]
          /\ (pc[r] = "awaitLock" /\ ~lockAcquired[r] /\ pc'[r] # pc[r])
             => (pc'[r] = "responded" /\ response'[r] = LockBusyResponse)]_vars

C13_Witness ==
  \E r \in Reqs :
    /\ ReachedLock(r)
    /\ ~lockAcquired[r]
    /\ response[r] = LockBusyResponse
    /\ \E q \in Reqs \ {r} :
         pc[q] = "responded" /\ lockAcquired[q] /\ response[q].status = 200

DirectoryMissingError ==
  [message |-> "Project directory does not exist", command |-> "", code |-> 0]

DirectoryMissingResponse ==
  [status |-> 500, success |-> "false", key |-> "error",
   text |-> "Project directory does not exist", detail |-> <<<<"">>>>]

\* C14: when the project's directory does not exist the pipeline fails with
\* the directory-missing error before any command is invoked (no fetch, no
\* recovery restart), the handler answers 500 with that message, and the
\* lock is released.
C14_DirectoryMissing ==
  /\ [](\A r \in Reqs :
          (failures[r] # <<>> /\ Head(failures[r]) = DirectoryMissingError)
          => /\ invoked[r] = <<>>
             /\ pc[r] = "responded"
             /\ response[r] = DirectoryMissingResponse)
  /\ [][\A r \in Reqs :
          (failures[r] = <<>> /\ failures'[r] = <<DirectoryMissingError>>)
          => ~isDeploying']_vars

C14_Witness ==
  \E r \in Reqs :
    /\ failures[r] = <<DirectoryMissingError>>
    /\ lockAcquired[r]
    /\ response[r] = DirectoryMissingResponse
    /\ ~isDeploying
    /\ request[r].projectName = "api"

\* C15: when the manifest is missing, or exists without a build script, the
\* build command is never invoked, the restart command follows the install
\* directly, and with every command exiting zero the request reports success.
C15_NoBuildStepIsNoError ==
  \A r \in Reqs :
    manifest[r] \in {"missing", "noBuild"}
    => /\ \A i \in 1..Len(invoked[r]) : invoked[r][i].command # "npm run build"
       /\ Len(invoked[r]) >= 4
       /\ SubSeq(invoked[r], 1, 4) = SuccessSequence(r, FALSE)
       /\ (failures[r] = <<>> /\ pc[r] = "responded")
            => /\ invoked[r] = SuccessSequence(r, FALSE)
               /\ response[r] =
                    [status |-> 200, success |-> "true", key |-> "message",
                     text |-> "Successfully deployed",
                     detail |-> <<<<request[r].projectName>>>>]

C15_Witness ==
  \E r, q \in Reqs :
    /\ manifest[r] = "missing"
    /\ manifest[q] = "noBuild"
    /\ pc[r] = "responded" /\ pc[q] = "responded"
    /\ failures[r] = <<>> /\ failures[q] = <<>>
    /\ response[r].status = 200 /\ response[q].status = 200
    /\ invoked[q] = SuccessSequence(q, FALSE)

\* C16: execPromise settles exactly once per invocation: it resolves with the
\* accumulated stdout exactly when the child closes with exit status zero,
\* rejects with the command-failed error carrying the exit code and the
\* accumulated stderr on a non-zero exit, and rejects with a process error,
\* not a command-failed error, when the child could not be started or was
\* killed by the timeout.
C16_RunnerOutcomes ==
  child.phase = "closed"
  => /\ child.settlements = 1
     /\ child.outcome.state = "resolved" <=> (child.cause = "exit" /\ child.code = 0)
     /\ child.outcome.state = "resolved" => child.outcome.value = child.stdout
     /\ (child.cause = "exit" /\ child.code # 0)
          => /\ child.outcome.state = "rejected"
             /\ child.outcome.error =
                  [message |-> "Command failed with code", code |-> child.code,
                   stderr |-> child.stderr]
     /\ child.cause \in {"spawn", "timeout"}
          => /\ child.outcome.state = "rejected"
             /\ child.outcome.error.message # "Command failed with code"

\* C17: from one client address at most 10 requests to /deploy reach the
\* deploy handler within one 15-minute window; further requests of the window
\* are answered 'Too many deploy requests' without signature check, lock
\* acquisition or command.
C17_RateLimited ==
  /\ reached <= 10
  /\ \A r \in Reqs :
       response[r].status = 429
       => verified[r] = "notCalled" /\ ~lockAcquired[r] /\ invoked[r] = <<>>

\* C18: a request whose acquireLock() rejected leaves the lock as it found
\* it: when its response is sent isDeploying has the value it had before, and
\* only a request that acquired the lock ever sets isDeploying back to false.
C18_RejectedLeavesLock ==
  [][/\ \A r \in Reqs :
          (pc[r] = "awaitLock" /\ ~lockAcquired[r] /\ pc'[r] = "responded")
          => isDeploying' = isDeploying
     /\ (isDeploying /\ ~isDeploying')
          => \E r \in Reqs : lockAcquired[r] /\ pc[r] # "responded" /\ pc'[r] = "responded"
    ]_vars

\* C19: with every child eventually closing and the manifest read completing,
\* a held lock is eventually released, and a deploy request that arrives when
\* every earlier request has been answered acquires the lock.
C19_NoPermanentLockout ==
  /\ isDeploying ~> ~isDeploying
  /\ [][\A r \in Reqs :
          (/\ pc[r] = "idle"
           /\ pc'[r] = "awaitLock"
           /\ \A q \in Reqs : ~InFlight(q))
          => lockAcquired'[r]]_vars

C19_Witness ==
  \E r, q \in Reqs :
    /\ r # q
    /\ pc[q] = "responded"
    /\ lockAcquired[q]
    /\ failures[q] # <<>>
    /\ response[q].status = 500
    /\ pc[r] = "awaitLock"
    /\ lockAcquired[r]
    /\ isDeploying

\* the children of the run of request r that were started and have not closed
RunningChildren(r) == Len(invoked[r]) - Len(exits[r])

CommandSteps == {"fetch", "reset", "install", "build", "restart", "recovery"}

\* C20: within one deployProject execution each command, the recovery restart
\* included, is started only after the previous command of the run has
\* closed, so at most one child of the run is running at any instant.
C20_StepsNeverOverlap ==
  /\ [](\A r \in Reqs :
          /\ RunningChildren(r) \in {0, 1}
          /\ RunningChildren(r) = 1 <=> pc[r] \in CommandSteps)
  /\ [][\A r \in Reqs :
          invoked'[r] # invoked[r] /\ invoked'[r] # <<>>
          => /\ Len(invoked'[r]) = Len(invoked[r]) + 1
             /\ Len(exits'[r]) = Len(invoked[r])]_vars

C20_Witness ==
  \E r \in Reqs :
    /\ pc[r] = "recovery"
    /\ Len(invoked[r]) = 5
    /\ Len(exits[r]) = 4
    /\ exits[r][4] # 0
    /\ invoked[r][4].command = "npm run build"

\* the first failure of the run is that of its restart step
PrimaryRestartFailed(r) ==
  failures[r] # <<>> /\ Head(failures[r]).command = "pm2 restart"

\* C21: a pipeline run that passed the directory check invokes the restart
\* command for the project's pm2Name at least once and at most twice before it
\* returns or throws: twice exactly when the restart step itself failed, and
\* then the error reported is that step's failure.
C21_RestartsPerRun ==
  \A r \in Reqs :
    /\ Cardinality(Restarts(r)) <= 2
    /\ \A i \in Restarts(r) : invoked[r][i] = ExpectedRestart(r)
    /\ (pc[r] = "responded" /\ invoked[r] # <<>>)
         => /\ Cardinality(Restarts(r)) >= 1
            /\ Cardinality(Restarts(r)) = 2 <=> PrimaryRestartFailed(r)
            /\ PrimaryRestartFailed(r)
                 => response[r] =
                      [status |-> 500, success |-> "false", key |-> "error",
                       text |-> "Command failed with code",
                       detail |-> <<<<"pm2 restart">>>>]

C21_Witness ==
  \E r \in Reqs :
    /\ pc[r] = "responded"
    /\ PrimaryRestartFailed(r)
    /\ Cardinality(Restarts(r)) = 2
    /\ Len(failures[r]) = 2
    /\ response[r].status = 500

\* the ref with its refs/heads/ prefix stripped when the body supplies a ref,
\* the configured branch otherwise
StatedBranch(body, project) ==
  IF body.ref = [type |-> "undefined", segs |-> <<>>] THEN project.branch
  ELSE IF Len(body.ref.segs) >= 2 /\ SubSeq(body.ref.segs, 1, 2) = <<"refs", "heads">>
    THEN SubSeq(body.ref.segs, 3, Len(body.ref.segs))
  ELSE body.ref.segs

Filtered(r) ==
  /\ pc[r] = "responded"
  /\ response[r].status = 200
  /\ response[r].text = "Ignoring deployment: branch"

\* C22: every hard reset ever invoked targets origin/<the configured branch of
\* the project named in the path>; the effective branch is the ref with its
\* refs/heads/ prefix stripped when the body supplies a ref and the configured
\* branch otherwise, so a request with a valid signature is filtered exactly
\* when that branch differs from the configured one, and never when the body
\* has no ref field.
C22_ResetTarget ==
  \A r \in Reqs :
    /\ \A i \in 1..Len(invoked[r]) :
         invoked[r][i].command = "git reset --hard origin/"
         => invoked[r][i] = ExpectedReset(r)
    /\ (Configured(r) /\ verified[r] = "accepted" /\ Body(r).ref.type # "number")
         => /\ Filtered(r) <=> StatedBranch(Body(r), Project(r)) # Project(r).branch
            /\ Body(r).ref.type = "undefined"
                 => pc[r] \in Running \cup {"awaitLock", "responded"} /\ ~Filtered(r)

\* C23: every request that reaches the handler gets a response, and it is one
\* of 404, 401, 200 or 500, for every body the JSON parser accepts (a ref that
\* is not a string included) and every token: once nothing of the request's
\* handling is pending, its response has been sent.
C23_AlwaysAnswered ==
  \A r \in Reqs :
    /\ response[r] # NoResponse => response[r].status \in {404, 401, 200, 500}
    /\ (pc[r] # "idle" /\ ~InFlight(r)) => response[r] # NoResponse

\* C24: while a pipeline is in flight (lock held, child running) a GET /health
\* is answered, without waiting for the pipeline, with 200 and the names of
\* the configured projects, and answering it changes neither the lock nor the
\* progress of any pipeline.
C24_HealthNotBlocked ==
  /\ [](health.status # 0
          => /\ health.status = 200
             /\ health.text = "ok"
             /\ health.projects = {"demo", "api"})
  /\ []((isDeploying /\ \E r \in Reqs : Active(r)) => ENABLED HealthCheck)
  /\ [][health' # health
          => /\ isDeploying' = isDeploying
             /\ pc' = pc
             /\ invoked' = invoked
             /\ exits' = exits
             /\ response' = response]_vars

C24_Witness ==
  /\ health.status = 200
  /\ health.during
  /\ isDeploying
  /\ \E r \in Reqs : pc[r] = "install" /\ lockAcquired[r] /\ response[r] = NoResponse

====
